---- MODULE Spec2Model ----
(***************************************************************************)
(* snakemake_unit_tests: the source resolution engine (snakemake_file).    *)
(*                                                                         *)
(* snakemake_file::load_everything seeds the block list with a synthetic   *)
(* include directive for the top-level snakefile, expands include          *)
(* directives until a full scan finds none, screens the result for known   *)
(* issues (detect_known_issues) and merges base rules into derived rules   *)
(* (resolve_derived_rules).  The model follows snakemake_file.cc statement *)
(* by statement; rule_block, whose implementation is not part of the       *)
(* sources at hand, is modelled from its documented behaviour.             *)
(*                                                                         *)
(* main() then hands the snakemake log to solved_rules::load_file and      *)
(* emits one test per recipe: the dependencies of the recipe are collected *)
(* (add_dag_from_leaf), checkpoints are propagated                         *)
(* (compute_dependency_checkpoints) and the snakefile of the test is       *)
(* rendered (emit_snakefile, snakemake_file::report_single_rule).  The     *)
(* bodies of the solved_rules methods are not part of the sources at hand  *)
(* either; they are modelled from their documented behaviour and from the  *)
(* unit tests in solved_rulesTest.cc.                                      *)
(***************************************************************************)
EXTENDS Integers, Sequences, FiniteSets, TLC

VARIABLES
    fs,             \* the snakefiles on disk: file name -> sequence of entries
    blocks,         \* snakemake_file::_blocks
    iter,           \* the list iterator of the scan in load_everything
    unresolved,     \* the flag `unresolved` of load_everything
    pc,             \* position of the caller inside load_everything
    exclude_rules,  \* the vector behind the exclude_rules pointer
    report,         \* what detect_known_issues prints to std::cout
    err,            \* the std::runtime_error that left the program, if any
    log,            \* the lines of the snakemake log file
    recipes,        \* solved_rules::_recipes
    output_lookup,  \* solved_rules::_output_lookup: path -> position in recipes
    toxic,          \* the duplicate-output warning of load_file went to std::cout
    emit,           \* the recipe under emission and the arguments of its calls
    included_rules, \* the map add_dag_from_leaf fills: positions in recipes
    out,            \* the stream report_single_rule writes to
    argv,           \* the options of the command line: option -> value
    config,         \* the config yaml the command line names
    params,         \* the params object set_parameters fills (`params p`)
    recipe,         \* one recipe object under its own operations (`recipe r`)
    exec_log,       \* the captured output of a snakemake run, line by line
    missing_rules,  \* the map find_missing_rules fills: missing name -> true
    cerr,           \* the lines written to std::cerr
    null_args       \* the operations whose caller hands in a null destination

vars == <<fs, blocks, iter, unresolved, pc, exclude_rules, report, err,
          log, recipes, output_lookup, toxic, emit, included_rules, out,
          argv, config, params, recipe, exec_log, missing_rules, cerr,
          null_args>>

\* the state of the snakemake_file object and of its caller
sf_vars == <<fs, blocks, iter, unresolved, exclude_rules, report>>
\* the state of the solved_rules object and of emit_tests
sr_vars == <<log, recipes, output_lookup, toxic, emit, included_rules, out>>
\* the state of the command line, of a recipe on its own, of the missing-rule
\* detection and of the callers' pointers
aux_vars == <<argv, config, params, recipe, exec_log, missing_rules, cerr,
              null_args>>

(***************************************************************************)
(* Bounds of the model.                                                    *)
(***************************************************************************)
\* entries over all snakefiles together (include-expansion inputs)
MaxEntries == 4
\* length the block list may reach before the model stops following a load
MaxBlocks == 6
\* deepest indentation at which the model follows an include
MaxDepth == 4
\* entries of the single snakefile of the rule-level inputs
MaxRules == 3
\* entries of the caller-supplied exclusion list
MaxExclude == 1
\* entries of the log in front of the dry-run line (log-parsing inputs)
MaxLogEntries == 3
\* recipes of the log (dependency inputs)
MaxRecipes == 3
\* paths a recipe object takes as inputs and as outputs
MaxPaths == 2
\* lines of the captured output of a snakemake run
MaxExecLines == 3
\* rule blocks of the snakefile of the repeated-detection inputs
MaxOccurrences == 4

(***************************************************************************)
(* Text.  A line of snakefile text is a sequence of tokens (strings).      *)
(***************************************************************************)
TopFile == "top"
FileNames == {"top", "a", "b"}
IncludeKeyword == "include:"
Quote == "\""
PosNames == <<"1", "2", "3", "4", "5", "6", "7", "8">>

\* the line `include: "<filename>"` (snakemake_file.cc:69 builds the same text)
IncludeLine(filename) == <<IncludeKeyword, Quote, filename, Quote>>
\* an include on a bareword variable
BarewordIncludeLine(variable) == <<IncludeKeyword, variable>>
\* a line of python code; its text is unique to its place in its file
CodeLine(file, i) == <<"code", file, PosNames[i]>>

\* std::string::find("include:") != npos
ContainsIncludeKeyword(line) == \E i \in 1..Len(line) : line[i] = IncludeKeyword

(***************************************************************************)
(* rule_block.                                                             *)
(***************************************************************************)
Keys == {"input", "shell"}
NoBlocks == [k \in {} |-> ""]

\* rule_block::rule_block(): the default-constructed block
EmptyBlock ==
    [rule_name |-> "", base_rule_name |-> "", rule_is_checkpoint |-> FALSE,
     docstring |-> "", named_blocks |-> NoBlocks, code_chunk |-> <<>>,
     global_indentation |-> 0, local_indentation |-> 0]

\* rule_block::add_code_chunk
add_code_chunk(rb, line) == [rb EXCEPT !.code_chunk = Append(@, line)]

\* rule_block::is_include_directive: the block is exactly one include
\* directive on a string literal
is_include_directive(rb) ==
    /\ rb.rule_name = ""
    /\ Len(rb.code_chunk) = 1
    /\ Len(rb.code_chunk[1]) = 4
    /\ rb.code_chunk[1][1] = IncludeKeyword
    /\ rb.code_chunk[1][2] = Quote
    /\ rb.code_chunk[1][4] = Quote

\* rule_block::get_recursive_filename: the file name inside the quotes
get_recursive_filename(rb) == rb.code_chunk[1][3]

\* rule_block::get_include_depth: the indentation at which the included
\* file's content lands
get_include_depth(rb) == rb.global_indentation + rb.local_indentation

\* rule_block::operator==: rule name, base name, checkpoint flag, docstring,
\* code chunk and the full sub-block mapping; indentation takes no part
BlockEquals(x, y) ==
    /\ x.rule_name = y.rule_name
    /\ x.base_rule_name = y.base_rule_name
    /\ x.rule_is_checkpoint = y.rule_is_checkpoint
    /\ x.docstring = y.docstring
    /\ x.code_chunk = y.code_chunk
    /\ DOMAIN x.named_blocks = DOMAIN y.named_blocks
    /\ \A k \in DOMAIN x.named_blocks : x.named_blocks[k] = y.named_blocks[k]

\* rule_block::operator!=
BlockDiffers(x, y) == ~BlockEquals(x, y)

\* rule_block::offer_base_rule_contents: take a sub-block of the base rule
\* only if this rule has no sub-block of that name
offer_base_rule_contents(rb, provider_name, block_name, block_values) ==
    IF block_name \in DOMAIN rb.named_blocks
    THEN rb
    ELSE [rb EXCEPT !.named_blocks =
            [k \in DOMAIN rb.named_blocks \cup {block_name} |->
                IF k = block_name THEN block_values ELSE rb.named_blocks[k]]]

(***************************************************************************)
(* Snakefiles.  An entry of a file is the text of one content block, or    *)
(* text that holds no content (blank and comment lines); rule_block::      *)
(* load_content_block consumes one entry per call.                         *)
(***************************************************************************)
BlankEntry == [blank |-> TRUE, block |-> EmptyBlock]
BlockEntry(rb) == [blank |-> FALSE, block |-> rb]

CodeBlock(file, i) == add_code_chunk(EmptyBlock, CodeLine(file, i))
IncludeBlock(filename, indent) ==
    [add_code_chunk(EmptyBlock, IncludeLine(filename))
        EXCEPT !.local_indentation = indent]
RuleBlock(name, base, named) ==
    [EmptyBlock EXCEPT !.rule_name = name, !.base_rule_name = base,
                       !.named_blocks = named]

\* rule_block::load_content_block: the next block of the file, placed at
\* the ambient indentation; false when the text held no content
load_content_block(loaded_lines, global_indentation, current_line) ==
    [loaded |-> ~loaded_lines[current_line].blank,
     rb |-> [loaded_lines[current_line].block
                EXCEPT !.global_indentation = global_indentation],
     current_line |-> current_line + 1]

\* snakemake_file::parse_file: the blocks of loaded_lines, in line order,
\* that are inserted before insertion_point
RECURSIVE parse_file(_, _, _)
parse_file(loaded_lines, current_line, global_indentation) ==
    IF current_line > Len(loaded_lines)
    THEN <<>>
    ELSE LET r == load_content_block(loaded_lines, global_indentation,
                                     current_line)
         IN  (IF r.loaded THEN <<r.rb>> ELSE <<>>)
             \o parse_file(loaded_lines, r.current_line, global_indentation)

(***************************************************************************)
(* std::list operations used by load_everything and parse_file.            *)
(* Iterators are positions 1..Len(list); Len(list)+1 is end().             *)
(***************************************************************************)
SubList(list, from, to) == [i \in 1..(to - from + 1) |-> list[from + i - 1]]

\* a variant that moves the insertion point onto each inserted block, so
\* that the blocks of a file land in reverse order
InsertBeforeReversed(list, insertion_point, rbs) ==
    SubList(list, 1, insertion_point - 1)
        \o [i \in 1..Len(rbs) |-> rbs[Len(rbs) + 1 - i]]
        \o SubList(list, insertion_point, Len(list))

\* _blocks.insert(insertion_point, rb), once per loaded block: the blocks
\* land before the insertion point, in the order they were loaded
InsertBefore(list, insertion_point, rbs) ==
    SubList(list, 1, insertion_point - 1) \o rbs
        \o SubList(list, insertion_point, Len(list))

\* _blocks.erase(pos); the iterator it returns is again position pos
Erase(list, pos) ==
    SubList(list, 1, pos - 1) \o SubList(list, pos + 1, Len(list))

(***************************************************************************)
(* load_everything: the include-expansion loop.                            *)
(***************************************************************************)
NoReport ==
    [total |-> 0, duplicated |-> 0, unresolvable |-> <<>>, leftover |-> <<>>]
NoError == [thrower |-> "", what |-> <<>>]

\* load_lines: "cannot open snakemake file"
CannotOpen(filename) ==
    [thrower |-> "load_lines",
     what |-> <<"cannot open snakemake file \"", filename, "\"">>]

\* a variant that takes the marker away wherever the scan stands
BlocksAfterVisitEraseAlways(list, it, loaded) ==
    IF is_include_directive(list[it])
    THEN Erase(InsertBefore(list, it, loaded), it + Len(loaded))
    ELSE Erase(list, it)

\* the body of the for loop, as far as the list goes: an include directive
\* is replaced by the blocks of its file, any other block is left alone
BlocksAfterVisit(list, it, loaded) ==
    IF is_include_directive(list[it])
    THEN Erase(InsertBefore(list, it, loaded), it + Len(loaded))
    ELSE list

\* a variant that forgets to ask for another pass
UnresolvedAfterIncludeKept == unresolved

\* `unresolved = true;` after an include directive was expanded
UnresolvedAfterInclude == TRUE

\* `throw std::runtime_error("null exclude_rules provided to load_everything")`
NullExcludeRules ==
    [thrower |-> "load_everything",
     what |-> <<"null exclude_rules provided to load_everything">>]

\* a load_everything that appends the synthetic include directive first and
\* tests exclude_rules behind it
LoadEverythingSeedFirst ==
    /\ pc = "start"
    /\ blocks' = Append(blocks, IncludeBlock(TopFile, 0))
    /\ IF "load_everything" \in null_args
       THEN /\ pc' = "error"
            /\ err' = NullExcludeRules
            /\ UNCHANGED <<unresolved, iter>>
       ELSE /\ unresolved' = FALSE
            /\ iter' = 1
            /\ pc' = "scan"
            /\ err' = err
    /\ UNCHANGED <<fs, exclude_rules, report, sr_vars, aux_vars>>

\* a load_everything that seeds the sequence with a block it has given no
\* code line
LoadEverythingBareSeed ==
    /\ pc = "start"
    /\ IF "load_everything" \in null_args
       THEN /\ pc' = "error"
            /\ err' = NullExcludeRules
            /\ UNCHANGED <<blocks, unresolved, iter>>
       ELSE /\ blocks' = Append(blocks, EmptyBlock)
            /\ unresolved' = FALSE
            /\ iter' = 1
            /\ pc' = "scan"
            /\ err' = err
    /\ UNCHANGED <<fs, exclude_rules, report, sr_vars, aux_vars>>

\* the first statements of load_everything up to the first loop test: a
\* null exclude_rules is refused, then the synthetic include directive for
\* the top-level file is appended
LoadEverything ==
    /\ pc = "start"
    /\ IF "load_everything" \in null_args
       THEN /\ pc' = "error"
            /\ err' = NullExcludeRules
            /\ UNCHANGED <<blocks, unresolved, iter>>
       ELSE /\ blocks' = Append(blocks, IncludeBlock(TopFile, 0))
            /\ unresolved' = FALSE
            /\ iter' = 1
            /\ pc' = "scan"
            /\ err' = err
    /\ UNCHANGED <<fs, exclude_rules, report, sr_vars, aux_vars>>

\* one turn of the for loop on an include directive
ScanInclude ==
    /\ pc = "scan"
    /\ iter <= Len(blocks)
    /\ is_include_directive(blocks[iter])
    /\ LET filename == get_recursive_filename(blocks[iter])
       IN  IF filename \notin DOMAIN fs
           THEN /\ pc' = "error"
                /\ err' = CannotOpen(filename)
                /\ UNCHANGED <<blocks, iter, unresolved>>
           ELSE LET loaded == parse_file(fs[filename], 1,
                                         get_include_depth(blocks[iter]))
                    after == BlocksAfterVisit(blocks, iter, loaded)
                    \* the iterator erase() returns
                    next == iter + Len(loaded)
                IN  IF \/ Len(after) > MaxBlocks
                       \/ get_include_depth(blocks[iter]) > MaxDepth
                    THEN /\ pc' = "capped"
                         /\ UNCHANGED <<blocks, iter, unresolved, err>>
                    ELSE /\ blocks' = after
                         /\ unresolved' = UnresolvedAfterInclude
                         /\ err' = err
                         /\ IF next <= Len(after)
                            THEN iter' = next + 1 /\ pc' = pc
                            ELSE \* ++iter on end(): undefined.  A circular
                                 \* list wraps to begin(); a checked
                                 \* iterator aborts the program.
                                 \/ iter' = 1 /\ pc' = pc
                                 \/ iter' = iter /\ pc' = "aborted"
    /\ UNCHANGED <<fs, exclude_rules, report, sr_vars, aux_vars>>

\* one turn of the for loop on any other block
ScanOther ==
    /\ pc = "scan"
    /\ iter <= Len(blocks)
    /\ ~is_include_directive(blocks[iter])
    /\ blocks' = BlocksAfterVisit(blocks, iter, <<>>)
    /\ iter' = iter + 1
    /\ UNCHANGED <<fs, unresolved, pc, exclude_rules, report, err, sr_vars,
                   aux_vars>>

\* the for loop reached end(): the while loop tests `unresolved`
PassEnd ==
    /\ pc = "scan"
    /\ iter = Len(blocks) + 1
    /\ IF unresolved
       THEN unresolved' = FALSE /\ iter' = 1 /\ pc' = pc
       ELSE pc' = "detect" /\ UNCHANGED <<unresolved, iter>>
    /\ UNCHANGED <<fs, blocks, exclude_rules, report, err, sr_vars, aux_vars>>

(***************************************************************************)
(* detect_known_issues.                                                    *)
(***************************************************************************)
\* the rule names of the inputs, in the order std::map iterates its keys
RuleNameOrder == <<"a", "b", "c">>

\* aggregated_rules[name]: the blocks without code chunk that carry the
\* name, in list order
Aggregated(list, name) ==
    SelectSeq(list, LAMBDA rb : rb.code_chunk = <<>> /\ rb.rule_name = name)

\* a variant that knows an include by the quote behind the keyword
LeftoverIncludesQuoted(list) ==
    LET code == SelectSeq(list, LAMBDA rb :
                    /\ rb.code_chunk # <<>>
                    /\ LET line == rb.code_chunk[Len(rb.code_chunk)]
                       IN  \E i \in 1..(Len(line) - 1) :
                             line[i] = IncludeKeyword /\ line[i + 1] = Quote)
    IN  [i \in 1..Len(code) |-> code[i].code_chunk[Len(code[i].code_chunk)]]

\* the last line of every code chunk that still holds "include:"
LeftoverIncludes(list) ==
    LET code == SelectSeq(list, LAMBDA rb :
                    /\ rb.code_chunk # <<>>
                    /\ ContainsIncludeKeyword(rb.code_chunk[Len(rb.code_chunk)]))
    IN  [i \in 1..Len(code) |-> code[i].code_chunk[Len(code[i].code_chunk)]]

\* a scan that stops behind the first entry of exclude_rules
already_excluded_first(excluded, name) ==
    excluded # <<>> /\ excluded[1] = name

\* the scan of exclude_rules for the name
already_excluded(excluded, name) ==
    \E v \in 1..Len(excluded) : excluded[v] = name

\* a variant that looks at the first duplicate only
RECURSIVE CompareSecondOnly(_, _, _, _, _)
CompareSecondOnly(occurrences, i, name, excluded, unresolvable) ==
    IF /\ i <= Len(occurrences)
       /\ BlockDiffers(occurrences[i], occurrences[1])
       /\ ~already_excluded(excluded, name)
    THEN [exclude |-> Append(excluded, name),
          unresolvable |-> Append(unresolvable, name)]
    ELSE [exclude |-> excluded, unresolvable |-> unresolvable]

\* a variant that compares the shared pointers, not the blocks behind them
RECURSIVE ComparePointers(_, _, _, _, _)
ComparePointers(occurrences, i, name, excluded, unresolvable) ==
    IF i > Len(occurrences)
    THEN [exclude |-> excluded, unresolvable |-> unresolvable]
    ELSE IF ~already_excluded(excluded, name)
         THEN [exclude |-> Append(excluded, name),
               unresolvable |-> Append(unresolvable, name)]
         ELSE ComparePointers(occurrences, i + 1, name, excluded,
                              unresolvable)

\* the loop `for (i = 1; i < size && !problematic; ++i)` over the blocks of
\* one name, from position i (1-based) on: each is compared with the first
RECURSIVE CompareWithFirst(_, _, _, _, _)
CompareWithFirst(occurrences, i, name, excluded, unresolvable) ==
    IF i > Len(occurrences)
    THEN [exclude |-> excluded, unresolvable |-> unresolvable]
    ELSE IF /\ BlockDiffers(occurrences[i], occurrences[1])
            /\ ~already_excluded(excluded, name)
         THEN [exclude |-> Append(excluded, name),
               unresolvable |-> Append(unresolvable, name)]
         ELSE CompareWithFirst(occurrences, i + 1, name, excluded,
                               unresolvable)

\* the loop over aggregated_rules, from the n-th name on
RECURSIVE ScanAggregated(_, _, _, _, _)
ScanAggregated(list, n, excluded, unresolvable, duplicated) ==
    IF n > Len(RuleNameOrder)
    THEN [exclude |-> excluded, unresolvable |-> unresolvable,
          duplicated |-> duplicated]
    ELSE LET name == RuleNameOrder[n]
             occurrences == Aggregated(list, name)
         IN  IF occurrences = <<>>
             THEN ScanAggregated(list, n + 1, excluded, unresolvable,
                                 duplicated)
             ELSE LET r == CompareWithFirst(occurrences, 2, name, excluded,
                                            unresolvable)
                  IN  ScanAggregated(list, n + 1, r.exclude, r.unresolvable,
                        IF Len(occurrences) > 1 THEN duplicated + 1
                                                ELSE duplicated)

\* `throw std::runtime_error("null pointer provided to exclude_rules")`
NullPointerExcludeRules ==
    [thrower |-> "detect_known_issues",
     what |-> <<"null pointer provided to exclude_rules">>]

\* detect_known_issues behind its null test: the exclusion list it leaves
\* and the summary it prints
detect_known_issues(list, excluded) ==
    LET r == ScanAggregated(list, 1, excluded, <<>>, 0)
    IN  [exclude |-> r.exclude,
         report |->
            [total |-> Cardinality({n \in 1..Len(RuleNameOrder) :
                        Aggregated(list, RuleNameOrder[n]) # <<>>}),
             duplicated |-> r.duplicated,
             unresolvable |-> r.unresolvable,
             leftover |-> LeftoverIncludes(list)]]

\* load_everything: detect_known_issues(exclude_rules), with the pointer
\* that load_everything has tested
DetectKnownIssues ==
    /\ pc = "detect"
    /\ LET r == detect_known_issues(blocks, exclude_rules)
       IN  /\ exclude_rules' = r.exclude
           /\ report' = r.report
    /\ pc' = "resolve"
    /\ UNCHANGED <<fs, blocks, iter, unresolved, err, sr_vars, aux_vars>>

(***************************************************************************)
(* resolve_derived_rules.                                                  *)
(***************************************************************************)
\* the message without the requested base rule
BaseNotFoundTerse(rule_name, base_rule_name) ==
    [thrower |-> "resolve_derived_rules",
     what |-> <<"derived rule \"", rule_name,
                "\" requested a base rule which could not be found">>]

\* the std::runtime_error for a base rule that is not in the list
BaseNotFound(rule_name, base_rule_name) ==
    [thrower |-> "resolve_derived_rules",
     what |-> <<"derived rule \"", rule_name, "\" requested base rule \"",
                base_rule_name,
                "\", which could not be found in available snakefiles">>]

\* a search that keeps the last block of the name
RECURSIVE base_rule_finder_last(_, _, _)
base_rule_finder_last(list, base_rule_name, j) ==
    IF j > Len(list)
    THEN Len(list) + 1
    ELSE LET later == base_rule_finder_last(list, base_rule_name, j + 1)
         IN  IF later <= Len(list) THEN later
             ELSE IF list[j].rule_name = base_rule_name THEN j
             ELSE Len(list) + 1

\* the search for the base rule from position j on: the first block whose
\* rule name is the requested one, or end()
RECURSIVE base_rule_finder(_, _, _)
base_rule_finder(list, base_rule_name, j) ==
    IF j > Len(list)
    THEN Len(list) + 1
    ELSE IF list[j].rule_name = base_rule_name
         THEN j
         ELSE base_rule_finder(list, base_rule_name, j + 1)

\* every sub-block of the base rule is offered to the derived rule
RECURSIVE OfferNamedBlocks(_, _, _)
OfferNamedBlocks(rb, base, remaining) ==
    IF remaining = {}
    THEN rb
    ELSE LET k == CHOOSE x \in remaining : TRUE
         IN  OfferNamedBlocks(
                offer_base_rule_contents(rb, base.rule_name, k,
                                         base.named_blocks[k]),
                base, remaining \ {k})

\* the loop over _blocks from position i on
RECURSIVE ResolveFrom(_, _)
ResolveFrom(list, i) ==
    IF i > Len(list)
    THEN [thrown |-> FALSE, blocks |-> list, err |-> NoError]
    ELSE IF list[i].base_rule_name = ""
         THEN ResolveFrom(list, i + 1)
         ELSE LET j == base_rule_finder(list, list[i].base_rule_name, 1)
              IN  IF j = Len(list) + 1
                  THEN [thrown |-> TRUE, blocks |-> list,
                        err |-> BaseNotFound(list[i].rule_name,
                                             list[i].base_rule_name)]
                  ELSE ResolveFrom(
                        [list EXCEPT ![i] = OfferNamedBlocks(list[i], list[j],
                                              DOMAIN list[j].named_blocks)],
                        i + 1)

ResolveDerivedRules ==
    /\ pc = "resolve"
    /\ LET r == ResolveFrom(blocks, 1)
       IN  /\ blocks' = r.blocks
           /\ err' = (IF r.thrown THEN r.err ELSE err)
           /\ pc' = (IF r.thrown THEN "error" ELSE "done")
    /\ UNCHANGED <<fs, iter, unresolved, exclude_rules, report, sr_vars,
                   aux_vars>>

(***************************************************************************)
(* recipe (solved_rules.h).                                                *)
(***************************************************************************)
\* recipe::recipe()
EmptyRecipe ==
    [rule_name |-> "", rule_is_checkpoint |-> FALSE,
     checkpoint_update |-> FALSE, inputs |-> <<>>, outputs |-> <<>>,
     log |-> ""]

set_rule_name(r, s) == [r EXCEPT !.rule_name = s]
is_checkpoint(r) == r.rule_is_checkpoint
set_checkpoint(r, b) == [r EXCEPT !.rule_is_checkpoint = b]
is_checkpoint_update(r) == r.checkpoint_update
\* a variant that writes the neighbouring member
set_checkpoint_update_slip(r, b) == [r EXCEPT !.rule_is_checkpoint = b]
set_checkpoint_update(r, b) == [r EXCEPT !.checkpoint_update = b]
\* a variant that hands out the wrong vector
get_inputs_slip(r) == r.outputs
get_inputs(r) == r.inputs
\* a variant that puts the new path in front
add_input_front(r, s) == [r EXCEPT !.inputs = <<s>> \o @]
add_input(r, s) == [r EXCEPT !.inputs = Append(@, s)]
\* a variant that hands out the wrong vector
get_outputs_slip(r) == r.inputs
get_outputs(r) == r.outputs
add_output(r, s) == [r EXCEPT !.outputs = Append(@, s)]
set_log(r, s) == [r EXCEPT !.log = s]

(***************************************************************************)
(* The snakemake log.  A line of the log is a sequence of tokens.          *)
(***************************************************************************)
RuleKeyword == "rule"
CheckpointKeyword == "checkpoint"
FieldIndent == "    "
Colon == ":"

\* `[Mon Jun 50 14:65:00 2022]`
TimestampLine == <<"[timestamp]">>
\* `rule <name>:` or `checkpoint <name>:`
DeclarationLine(keyword, name) == <<keyword, name, Colon>>
\* `    <key>: <value>, <value>`
FieldLine(key, values) == <<FieldIndent, key, Colon>> \o values
\* `This was a dry-run (flag -n)`
DryRunLine == <<"This was a dry-run (flag -n)">>

IsDeclarationLine(line) ==
    /\ Len(line) = 3
    /\ line[1] \in {RuleKeyword, CheckpointKeyword}
    /\ line[3] = Colon
IsFieldLine(line) ==
    /\ Len(line) >= 3
    /\ line[1] = FieldIndent
    /\ line[3] = Colon
FieldValues(line) == SubList(line, 4, Len(line))

(***************************************************************************)
(* solved_rules::load_file.                                                *)
(***************************************************************************)
\* the values of an `input:` line, added in the order of the line
RECURSIVE add_inputs(_, _, _)
add_inputs(r, values, k) ==
    IF k > Len(values) THEN r
    ELSE add_inputs(add_input(r, values[k]), values, k + 1)

\* the values of an `output:` line, added in the order of the line
RECURSIVE add_outputs(_, _, _)
add_outputs(r, values, k) ==
    IF k > Len(values) THEN r
    ELSE add_outputs(add_output(r, values[k]), values, k + 1)

\* one field line of the entry of recipe r; a keyword other than input,
\* output and log is passed over
load_field(r, key, values) ==
    CASE key = "input" -> add_inputs(r, values, 1)
      [] key = "output" -> add_outputs(r, values, 1)
      [] key = "log" /\ values # <<>> -> set_log(r, values[1])
      [] OTHER -> r

\* the scan of the log from line i on: a declaration line opens a recipe,
\* the field lines behind it fill the recipe, the dry-run line ends the scan
RECURSIVE load_recipes(_, _, _)
load_recipes(lines, i, loaded) ==
    IF i > Len(lines) THEN loaded
    ELSE IF lines[i] = DryRunLine THEN loaded
    ELSE IF IsDeclarationLine(lines[i])
    THEN load_recipes(lines, i + 1,
            Append(loaded,
                   set_checkpoint(set_rule_name(EmptyRecipe, lines[i][2]),
                                  lines[i][1] = CheckpointKeyword)))
    ELSE IF IsFieldLine(lines[i]) /\ loaded # <<>>
    THEN load_recipes(lines, i + 1,
            [loaded EXCEPT ![Len(loaded)] =
                load_field(@, lines[i][2], FieldValues(lines[i]))])
    ELSE load_recipes(lines, i + 1, loaded)

NoLookup == [p \in {} |-> 0]

\* a variant with the meaning of std::map::insert: an entry that exists stays
LookupInsert(lookup, path, rec) ==
    [p \in DOMAIN lookup \cup {path} |->
        IF p \in DOMAIN lookup THEN lookup[p] ELSE rec]

\* _output_lookup[path] = rec
LookupAssign(lookup, path, rec) ==
    [p \in DOMAIN lookup \cup {path} |->
        IF p = path THEN rec ELSE lookup[p]]

\* the outputs of the loaded recipes enter the lookup in log order, from
\* output k of recipe rec on; a path another recipe holds already is
\* overwritten and the warning is armed
RECURSIVE load_outputs(_, _, _, _, _)
load_outputs(loaded, rec, k, lookup, warn) ==
    IF rec > Len(loaded) THEN [lookup |-> lookup, toxic |-> warn]
    ELSE IF k > Len(get_outputs(loaded[rec]))
    THEN load_outputs(loaded, rec + 1, 1, lookup, warn)
    ELSE LET path == get_outputs(loaded[rec])[k]
         IN  load_outputs(loaded, rec, k + 1,
                          LookupAssign(lookup, path, rec),
                          warn \/ (path \in DOMAIN lookup /\ lookup[path] # rec))

\* main(): sr.load_file(p.snakemake_log.string())
LoadFile ==
    /\ pc = "done"
    /\ LET loaded == load_recipes(log, 1, recipes)
           r == load_outputs(loaded, 1, 1, output_lookup, FALSE)
       IN  /\ recipes' = loaded
           /\ output_lookup' = r.lookup
           /\ toxic' = r.toxic
    /\ pc' = "loaded"
    /\ UNCHANGED <<aux_vars, sf_vars, err, log, emit, included_rules, out>>

(***************************************************************************)
(* solved_rules::add_dag_from_leaf, compute_dependency_checkpoints.        *)
(***************************************************************************)
\* a walk that enters a recipe it has met before a second time
RECURSIVE add_dag_inputs_revisit(_, _, _, _)
add_dag_inputs_revisit(rec, k, include_entire_dag, w) ==
    IF k > Len(get_inputs(recipes[rec])) THEN w
    ELSE LET path == get_inputs(recipes[rec])[k]
         IN  IF path \notin DOMAIN output_lookup
             THEN add_dag_inputs_revisit(rec, k + 1, include_entire_dag, w)
             ELSE LET producer == output_lookup[path]
                      added == [target |-> w.target \cup {producer},
                                walk |-> Append(w.walk, producer)]
                  IN  add_dag_inputs_revisit(rec, k + 1, include_entire_dag,
                        IF include_entire_dag /\ producer \notin w.target
                        THEN add_dag_inputs_revisit(producer, 1,
                                            include_entire_dag, added)
                        ELSE added)

\* the walk over the inputs of recipe rec, from input k on: the recipe that
\* produces an input enters the target; with include_entire_dag the walk
\* goes on from that recipe
\* the result carries, next to the target, the recipes in the order in
\* which they entered it
RECURSIVE add_dag_inputs(_, _, _, _)
add_dag_inputs(rec, k, include_entire_dag, w) ==
    IF k > Len(get_inputs(recipes[rec])) THEN w
    ELSE LET path == get_inputs(recipes[rec])[k]
         IN  IF path \notin DOMAIN output_lookup
                \/ output_lookup[path] \in w.target
             THEN add_dag_inputs(rec, k + 1, include_entire_dag, w)
             ELSE LET producer == output_lookup[path]
                      added == [target |-> w.target \cup {producer},
                                walk |-> Append(w.walk, producer)]
                  IN  add_dag_inputs(rec, k + 1, include_entire_dag,
                        IF include_entire_dag
                        THEN add_dag_inputs(producer, 1, include_entire_dag,
                                            added)
                        ELSE added)

\* `throw` on a null target
NullTarget ==
    [thrower |-> "add_dag_from_leaf",
     what |-> <<"null pointer provided to add_dag_from_leaf">>]

add_dag_from_leaf(rec, include_entire_dag, target) ==
    add_dag_inputs(rec, 1, include_entire_dag,
                   [target |-> target, walk |-> <<>>])

\* whether recipe rec is a checkpoint or depends on one
compute_dependency_checkpoints(rec) ==
    \/ is_checkpoint(recipes[rec])
    \/ \E r \in add_dag_from_leaf(rec, TRUE, {}).target :
            is_checkpoint(recipes[r])

NoEmit ==
    [rec |-> 0, include_entire_dag |-> FALSE, walk |-> <<>>, rule_name |-> "",
     dependent_rulenames |-> {}]

\* emit_tests: the dependencies of one recipe of the log are collected; a
\* null target is refused
AddDagFromLeaf ==
    /\ pc = "loaded"
    /\ IF "add_dag_from_leaf" \in null_args
       THEN /\ pc' = "error"
            /\ err' = NullTarget
            /\ UNCHANGED <<included_rules, emit>>
       ELSE /\ \E rec \in 1..Len(recipes) :
                 \E include_entire_dag \in BOOLEAN :
                    LET w == add_dag_from_leaf(rec, include_entire_dag, {})
                    IN  /\ included_rules' = w.target
                        /\ emit' = [emit EXCEPT !.rec = rec,
                                !.include_entire_dag = include_entire_dag,
                                !.walk = w.walk]
            /\ pc' = "dag"
            /\ err' = err
    /\ UNCHANGED <<aux_vars, sf_vars, log, recipes, output_lookup, toxic, out>>

\* emit_tests: every recipe learns whether a checkpoint stands behind it
ComputeDependencyCheckpoints ==
    /\ pc = "dag"
    /\ recipes' = [r \in 1..Len(recipes) |->
            set_checkpoint_update(recipes[r],
                                  compute_dependency_checkpoints(r))]
    /\ pc' = "checkpoints"
    /\ UNCHANGED <<aux_vars, sf_vars, err, log, output_lookup, toxic, emit,
                   included_rules, out>>

(***************************************************************************)
(* snakemake_file::report_single_rule, solved_rules::emit_snakefile.       *)
(***************************************************************************)
\* rule_block::print_contents: the text of the block itself
print_contents(rb) == [kind |-> "contents", indent |-> 0, block |-> rb]

\* `out << ' '` indent times, then `out << "pass" << std::endl`
PassLine(indent) == [kind |-> "pass", indent |-> indent, block |-> EmptyBlock]

\* the std::runtime_error for a rule that is in no block
UnableToLocate(rule_name) ==
    [thrower |-> "report_single_rule",
     what |-> <<"unable to locate log requested rule in scanned snakefiles: \"",
                rule_name, "\"">>]

\* a variant that indents the stand-in by the global indentation alone
ReportBlockGlobalOnly(rb, rule_name) ==
    IF rb.rule_name = rule_name \/ rb.rule_name = ""
    THEN print_contents(rb)
    ELSE PassLine(rb.global_indentation)

\* what the body of the loop writes for one block
ReportBlock(rb, rule_name) ==
    IF rb.rule_name = rule_name \/ rb.rule_name = ""
    THEN print_contents(rb)
    ELSE PassLine(rb.global_indentation + rb.local_indentation)

\* a variant in which every block overwrites found_rule
RECURSIVE report_blocks_last(_, _, _, _, _)
report_blocks_last(list, i, rule_name, found_rule, written) ==
    IF i > Len(list)
    THEN [found_rule |-> found_rule, out |-> written]
    ELSE report_blocks_last(list, i + 1, rule_name,
                            list[i].rule_name = rule_name,
                            Append(written, ReportBlock(list[i], rule_name)))

\* the loop over the blocks from position i on
RECURSIVE report_blocks(_, _, _, _, _)
report_blocks(list, i, rule_name, found_rule, written) ==
    IF i > Len(list)
    THEN [found_rule |-> found_rule, out |-> written]
    ELSE report_blocks(list, i + 1, rule_name,
                       found_rule \/ list[i].rule_name = rule_name,
                       Append(written, ReportBlock(list[i], rule_name)))

\* a report that looks for the rule first and writes nothing when the rule
\* is not there
report_single_rule_search_first(list, rule_name) ==
    LET r == report_blocks(list, 1, rule_name, FALSE, <<>>)
    IN  [out |-> IF r.found_rule THEN r.out ELSE <<>>,
         thrown |-> ~r.found_rule,
         err |-> UnableToLocate(rule_name)]

\* report_single_rule: the loop over the blocks, then the throw
report_single_rule(list, rule_name) ==
    LET r == report_blocks(list, 1, rule_name, FALSE, <<>>)
    IN  [out |-> r.out, thrown |-> ~r.found_rule,
         err |-> UnableToLocate(rule_name)]

\* emit_snakefile(sf, workspace_path, rec, dependent_rulenames, ...): the
\* snakefile of the test of one recipe is rendered
EmitSnakefile ==
    /\ pc = "checkpoints"
    /\ LET rule_name == recipes[emit.rec].rule_name
           r == report_single_rule(blocks, rule_name)
       IN  /\ emit' = [emit EXCEPT !.rule_name = rule_name,
                        !.dependent_rulenames =
                            {recipes[d].rule_name : d \in included_rules}]
           /\ out' = r.out
           /\ err' = (IF r.thrown THEN r.err ELSE err)
           /\ pc' = (IF r.thrown THEN "error" ELSE "emitted")
    /\ UNCHANGED <<aux_vars, sf_vars, log, recipes, output_lookup, toxic,
                   included_rules>>

(***************************************************************************)
(* cargs::set_parameters (cargs.cc).  A path, and the string it is made    *)
(* from, is the sequence of its components: the empty sequence is the      *)
(* empty string, a trailing separator is a last component Separator.  Of   *)
(* params, the six path parameters are modelled; the flags and the lists   *)
(* of added files and excluded rules take no part in them.                 *)
(***************************************************************************)
Separator == "/"
Options ==
    {"output-test-dir", "snakefile", "pipeline-top-dir", "pipeline-run-dir",
     "inst-dir", "snakemake-log"}

\* boost::filesystem::path::remove_trailing_separator
remove_trailing_separator(path) ==
    IF path # <<>> /\ path[Len(path)] = Separator
    THEN SubList(path, 1, Len(path) - 1)
    ELSE path

\* boost::filesystem::path::parent_path
parent_path(path) ==
    IF path = <<>> THEN <<>> ELSE SubList(path, 1, Len(path) - 1)

\* boost::filesystem::is_directory on the disk of the inputs
is_directory(path) ==
    /\ path # <<>>
    /\ \A i \in 1..Len(path) :
          path[i] \in {"cli", "yaml", "workflow", "top", "run", "inst", "out",
                       ".", Separator}

\* boost::filesystem::is_regular_file on the disk of the inputs
is_regular_file(path) ==
    /\ path # <<>>
    /\ path[Len(path)] \in
          {"Snakefile", "snakemake.log", "test.py", "common.py", "config.yaml"}
    /\ \A i \in 1..(Len(path) - 1) : is_directory(<<path[i]>>)

\* params(): every path is empty
NoParams ==
    [config_filename |-> <<>>, output_test_dir |-> <<>>, snakefile |-> <<>>,
     pipeline_top_dir |-> <<>>, pipeline_run_dir |-> <<>>, inst_dir |-> <<>>,
     snakemake_log |-> <<>>]

\* `if (p.config.query_valid(key)) field = p.config.get_entry(key);`
config_entry(cfg, key, field) ==
    IF cfg.entries[key] # <<>> THEN cfg.entries[key] ELSE field

\* cargs::override_if_specified
override_if_specified(cli_entry, params_entry) ==
    IF cli_entry = <<>> THEN params_entry ELSE cli_entry

\* the consistency checks of set_parameters, in their order: the exception
\* of the first check that fails, NoError if none does
consistency_checks(p) ==
    LET nonempty(msg) ==
            [thrower |-> "check_nonempty",
             what |-> <<"parameter \"", msg,
                        "\" does not have a default value and must be specified">>]
        regular(msg, path) ==
            [thrower |-> "check_regular_file",
             what |-> <<"for \"", msg, "\", provided path \"", path,
                        "\" is not a regular file">>]
        directory(msg, path) ==
            [thrower |-> "check_and_fix_dir",
             what |-> <<"for \"", msg, "\", provided path \"", path,
                        "\" is not a directory">>]
    IN  IF p.output_test_dir = <<>> THEN nonempty("output-test-dir")
        ELSE IF p.snakefile = <<>> THEN nonempty("snakefile")
        ELSE IF ~is_regular_file(p.snakefile)
        THEN regular("snakefile", p.snakefile)
        ELSE IF p.pipeline_top_dir = <<>> THEN nonempty("pipeline-top-dir")
        ELSE IF ~is_directory(p.pipeline_top_dir)
        THEN directory("pipeline-topdir", p.pipeline_top_dir)
        ELSE IF p.pipeline_run_dir = <<>> THEN nonempty("pipeline-run-dir")
        ELSE IF ~is_directory(p.pipeline_top_dir \o p.pipeline_run_dir)
        THEN [thrower |-> "set_parameters",
              what |-> <<"pipeline run directory \"", p.pipeline_run_dir,
                         "\" should be a valid path relative to pipeline top directory">>]
        ELSE IF p.inst_dir = <<>> THEN nonempty("inst-dir")
        ELSE IF ~is_directory(p.inst_dir)
        THEN directory("inst-dir", p.inst_dir)
        ELSE IF \/ ~is_regular_file(p.inst_dir \o <<"test.py">>)
                \/ ~is_regular_file(p.inst_dir \o <<"common.py">>)
        THEN [thrower |-> "set_parameters",
              what |-> <<"inst directory \"", p.inst_dir, "\" exists, but",
                         " doesn't appear to contain either 'common.py' or 'test.py'">>]
        ELSE IF p.snakemake_log = <<>> THEN nonempty("snakemake-log")
        ELSE IF ~is_regular_file(p.snakemake_log)
        THEN regular("snakemake-log", p.snakemake_log)
        ELSE NoError

\* cargs::set_parameters: the config yaml first, then the command line,
\* then the defaults and the consistency checks
set_parameters(args, cfg) ==
    LET named == [NoParams EXCEPT !.config_filename = cfg.filename]
        from_yaml ==
            IF cfg.filename # <<>> /\ is_regular_file(cfg.filename)
            THEN [named EXCEPT
                    !.output_test_dir = config_entry(cfg, "output-test-dir", @),
                    !.snakefile = config_entry(cfg, "snakefile", @),
                    !.pipeline_top_dir =
                        config_entry(cfg, "pipeline-top-dir", @),
                    !.pipeline_run_dir =
                        config_entry(cfg, "pipeline-run-dir", @),
                    !.inst_dir = config_entry(cfg, "inst-dir", @),
                    !.snakemake_log = config_entry(cfg, "snakemake-log", @)]
            ELSE named
        from_cli ==
            [from_yaml EXCEPT
                !.output_test_dir =
                    override_if_specified(args["output-test-dir"], @),
                !.snakefile = override_if_specified(args["snakefile"], @),
                !.pipeline_top_dir =
                    override_if_specified(args["pipeline-top-dir"], @)]
        top ==
            IF from_cli.pipeline_top_dir = <<>>
            THEN [from_cli EXCEPT
                    !.snakefile = remove_trailing_separator(@),
                    !.pipeline_top_dir =
                        parent_path(parent_path(
                            remove_trailing_separator(from_cli.snakefile)))]
            ELSE from_cli
        run ==
            IF top.pipeline_run_dir = <<>>
            THEN [top EXCEPT !.pipeline_run_dir = <<".">>]
            ELSE top
        rest ==
            [run EXCEPT
                !.inst_dir = override_if_specified(args["inst-dir"], @),
                !.snakemake_log =
                    override_if_specified(args["snakemake-log"], @),
                !.output_test_dir = remove_trailing_separator(@)]
        failure == consistency_checks(rest)
    IN  [thrown |-> failure # NoError,
         err |-> failure,
         p |-> [rest EXCEPT
                    !.pipeline_top_dir = remove_trailing_separator(@),
                    !.pipeline_run_dir = remove_trailing_separator(@),
                    !.inst_dir = remove_trailing_separator(@)]]

\* main(): p = ap.set_parameters()
SetParameters ==
    /\ pc = "start"
    /\ LET r == set_parameters(argv, config)
       IN  /\ params' = (IF r.thrown THEN params ELSE r.p)
           /\ err' = (IF r.thrown THEN r.err ELSE err)
           /\ pc' = (IF r.thrown THEN "error" ELSE "parsed")
    /\ UNCHANGED <<sf_vars, sr_vars, argv, config, recipe, exec_log,
                   missing_rules, cerr, null_args>>

(***************************************************************************)
(* recipe under its own operations (solved_rules.h).                       *)
(***************************************************************************)
\* recipe::clear
clear(r) ==
    [r EXCEPT !.rule_name = "", !.log = "", !.inputs = <<>>, !.outputs = <<>>]

\* the strings handed to the setters
RecipeStrings == {"rulename", "othername"}

\* everything a step on the recipe object leaves alone
recipe_frame == <<sf_vars, sr_vars, err, argv, config, params, exec_log,
                  missing_rules, cerr, null_args>>

SetRuleName ==
    /\ pc \in {"start", "set", "cleared"}
    /\ \E s \in RecipeStrings : recipe' = set_rule_name(recipe, s)
    /\ pc' = "set"
    /\ UNCHANGED recipe_frame

SetCheckpoint ==
    /\ pc \in {"start", "set", "cleared"}
    /\ \E b \in BOOLEAN : recipe' = set_checkpoint(recipe, b)
    /\ pc' = "set"
    /\ UNCHANGED recipe_frame

SetCheckpointUpdate ==
    /\ pc \in {"start", "set", "cleared"}
    /\ \E b \in BOOLEAN : recipe' = set_checkpoint_update(recipe, b)
    /\ pc' = "set"
    /\ UNCHANGED recipe_frame

AddInput ==
    /\ pc \in {"start", "set", "cleared"}
    /\ Len(get_inputs(recipe)) < MaxPaths
    /\ \E s \in RecipeStrings : recipe' = add_input(recipe, s)
    /\ pc' = "set"
    /\ UNCHANGED recipe_frame

AddOutput ==
    /\ pc \in {"start", "set", "cleared"}
    /\ Len(get_outputs(recipe)) < MaxPaths
    /\ \E s \in RecipeStrings : recipe' = add_output(recipe, s)
    /\ pc' = "set"
    /\ UNCHANGED recipe_frame

SetLog ==
    /\ pc \in {"start", "set", "cleared"}
    /\ \E s \in RecipeStrings : recipe' = set_log(recipe, s)
    /\ pc' = "set"
    /\ UNCHANGED recipe_frame

Clear ==
    /\ pc \in {"start", "set", "cleared"}
    /\ recipe' = clear(recipe)
    /\ pc' = "cleared"
    /\ UNCHANGED recipe_frame

(***************************************************************************)
(* solved_rules::find_missing_rules.  A line of the captured output is a   *)
(* sequence of tokens; a missing-rule message is the token of its shape,   *)
(* the name, and the closing quote.                                        *)
(***************************************************************************)
\* a variant that reads the message of a rule that is there
RulesShapePresent == "'Rules' object has attribute '"
RulesShape == "'Rules' object has no attribute '"
CheckpointsShape == "'Checkpoints' object has no attribute '"
\* a variant with another marker
ErrorMarkerOther == "Error:"
ErrorMarker == "Exception:"

\* the place of the first missing-rule message of the line, 0 if none
ShapeAt(line) ==
    LET at == {i \in 1..(Len(line) - 2) :
                    /\ line[i] \in {RulesShape, CheckpointsShape}
                    /\ line[i + 2] = "'"}
    IN  IF at = {} THEN 0 ELSE CHOOSE i \in at : \A j \in at : i <= j

NoMissing == [name \in {} |-> TRUE]

\* (*target)[name] = true
RecordMissing(target, name) == [n \in DOMAIN target \cup {name} |-> TRUE]

NullMissing ==
    [thrower |-> "find_missing_rules",
     what |-> <<"null pointer provided to find_missing_rules">>]
UnexpectedError ==
    [thrower |-> "find_missing_rules",
     what |-> <<"unexpected error in the output of snakemake">>]

\* the scan of the captured output from line i on: a line with a
\* missing-rule message gives its name to the target, any other line that
\* begins with the error marker ends the scan
RECURSIVE find_missing_from(_, _, _)
find_missing_from(lines, i, target) ==
    IF i > Len(lines)
    THEN [thrown |-> FALSE, target |-> target, line |-> <<>>]
    ELSE IF ShapeAt(lines[i]) # 0
    THEN find_missing_from(lines, i + 1,
            RecordMissing(target, lines[i][ShapeAt(lines[i]) + 1]))
    ELSE IF lines[i] # <<>> /\ lines[i][1] = ErrorMarker
    THEN [thrown |-> TRUE, target |-> target, line |-> lines[i]]
    ELSE find_missing_from(lines, i + 1, target)

\* the captured output of the run of an emitted snakefile is searched for
\* missing rules; a null target is refused
FindMissingRules ==
    /\ pc = "emitted"
    /\ IF "find_missing_rules" \in null_args
       THEN /\ pc' = "error"
            /\ err' = NullMissing
            /\ UNCHANGED <<missing_rules, cerr>>
       ELSE LET r == find_missing_from(exec_log, 1, missing_rules)
            IN  /\ missing_rules' = r.target
                \* std::cerr << line
                /\ cerr' = (IF r.thrown THEN Append(cerr, r.line) ELSE cerr)
                /\ err' = (IF r.thrown THEN UnexpectedError ELSE err)
                /\ pc' = (IF r.thrown THEN "error" ELSE "missing")
    /\ UNCHANGED <<sf_vars, sr_vars, argv, config, params, recipe, exec_log,
                   null_args>>

\* detect_known_issues, called on the loaded snakemake_file once more
DetectKnownIssuesAgain ==
    /\ pc = "done"
    /\ IF "detect_known_issues" \in null_args
       THEN /\ pc' = "error"
            /\ err' = NullPointerExcludeRules
            /\ UNCHANGED <<exclude_rules, report>>
       ELSE LET r == detect_known_issues(blocks, exclude_rules)
            IN  /\ exclude_rules' = r.exclude
                /\ report' = r.report
                /\ pc' = "redetected"
                /\ err' = err
    /\ UNCHANGED <<fs, blocks, iter, unresolved, sr_vars, aux_vars>>

(***************************************************************************)
(* Inputs and specifications.                                              *)
(***************************************************************************)
\* the entry of one job in the log: time stamp, declaration, field lines
LogEntry(keyword, name, inputs, outputs, more) ==
    <<TimestampLine, DeclarationLine(keyword, name)>>
        \o (IF inputs = <<>> THEN <<>> ELSE <<FieldLine("input", inputs)>>)
        \o <<FieldLine("output", outputs)>>
        \o more

\* the log of a dry run of one rule without inputs
OneRuleLog ==
    LogEntry(RuleKeyword, "a", <<>>, <<"x">>, <<>>) \o <<DryRunLine>>

\* snakemake_file(), solved_rules(): both objects are empty
Constructed ==
    /\ blocks = <<>>
    /\ iter = 1
    /\ unresolved = FALSE
    /\ pc = "start"
    /\ report = NoReport
    /\ err = NoError
    /\ recipes = <<>>
    /\ output_lookup = NoLookup
    /\ toxic = FALSE
    /\ emit = NoEmit
    /\ included_rules = {}
    /\ out = <<>>
    /\ params = NoParams
    /\ recipe = EmptyRecipe
    /\ missing_rules = NoMissing
    /\ cerr = <<>>

\* main() was started by hand: the command line and the config yaml are
\* not part of the inputs
NoCommandLine ==
    /\ argv = [o \in Options |-> <<>>]
    /\ config = [filename |-> <<>>, entries |-> [o \in Options |-> <<>>]]

\* the block of an include on a bareword variable: one python statement
IncludeVariable == "snakefile_path"
BarewordBlock(variable) ==
    add_code_chunk(EmptyBlock, BarewordIncludeLine(variable))

\* an entry of a snakefile of the include-expansion inputs
EntryKinds == {"code", "blank", "include a", "include b"}
MakeEntry(file, i, kind) ==
    CASE kind = "code" -> BlockEntry(CodeBlock(file, i))
      [] kind = "blank" -> BlankEntry
      [] kind = "include a" -> BlockEntry(IncludeBlock("a", 0))
      [] kind = "include b" -> BlockEntry(IncludeBlock("b", 4))
      [] kind = "include var" -> BlockEntry(BarewordBlock(IncludeVariable))
      [] kind = "rule a" -> BlockEntry(RuleBlock("a", "", NoBlocks))
      [] kind = "rule a input" ->
            BlockEntry(RuleBlock("a", "", [k \in {"input"} |-> "v1"]))
      [] kind = "rule b from a" -> BlockEntry(RuleBlock("b", "a", NoBlocks))
      [] kind = "rule b nested" ->
            BlockEntry([RuleBlock("b", "", NoBlocks)
                            EXCEPT !.local_indentation = 2])
MakeFile(file, kinds) == [i \in 1..Len(kinds) |-> MakeEntry(file, i, kinds[i])]

\* three snakefiles with at most MaxEntries entries together; the file b
\* may be missing from the disk
InitInclude ==
    /\ Constructed
    /\ NoCommandLine
    /\ null_args = {}
    /\ exec_log = <<>>
    /\ log = OneRuleLog
    /\ exclude_rules = <<>>
    /\ \E n1 \in 0..MaxEntries :
         \E n2 \in 0..(MaxEntries - n1) :
           \E n3 \in 0..(MaxEntries - n1 - n2) :
             \E k1 \in [1..n1 -> EntryKinds] :
               \E k2 \in [1..n2 -> EntryKinds] :
                 \E k3 \in [1..n3 -> EntryKinds] :
                   \/ fs = [f \in FileNames |->
                              CASE f = "top" -> MakeFile("top", k1)
                                [] f = "a" -> MakeFile("a", k2)
                                [] f = "b" -> MakeFile("b", k3)]
                   \/ /\ n3 = 0
                      /\ fs = [f \in {"top", "a"} |->
                              IF f = "top" THEN MakeFile("top", k1)
                                           ELSE MakeFile("a", k2)]

\* two snakefiles with at most MaxEntries entries together, some of them
\* includes on a bareword variable; the file a may be missing from the disk
BarewordKinds == {"code", "include a", "include var"}
InitBareword ==
    /\ Constructed
    /\ NoCommandLine
    /\ null_args = {}
    /\ exec_log = <<>>
    /\ log = OneRuleLog
    /\ exclude_rules = <<>>
    /\ \E n1 \in 0..MaxEntries :
         \E n2 \in 0..(MaxEntries - n1) :
           \E k1 \in [1..n1 -> BarewordKinds] :
             \E k2 \in [1..n2 -> BarewordKinds] :
               \/ fs = [f \in {"top", "a"} |->
                          IF f = "top" THEN MakeFile("top", k1)
                                       ELSE MakeFile("a", k2)]
               \/ /\ n2 = 0
                  /\ fs = [f \in {"top"} |-> MakeFile("top", k1)]

\* the log of a dry run of three jobs, each consuming the output of the
\* job before it
ChainLog ==
    LogEntry(RuleKeyword, "a", <<>>, <<"x">>, <<>>)
        \o LogEntry(RuleKeyword, "b", <<"x">>, <<"y">>, <<>>)
        \o LogEntry(RuleKeyword, "c", <<"y">>, <<"z">>, <<>>)
        \o <<DryRunLine>>

\* two snakefiles with at most MaxEntries entries together: python code,
\* rules, a rule nested in a conditional, includes at an indentation
RenderKinds == {"code", "rule a", "rule b nested", "include b"}
InitRender ==
    /\ Constructed
    /\ NoCommandLine
    /\ null_args = {}
    /\ exec_log = <<>>
    /\ log = ChainLog
    /\ exclude_rules = <<>>
    /\ \E n1 \in 0..MaxEntries :
         \E n2 \in 0..(MaxEntries - n1) :
           \E k1 \in [1..n1 -> RenderKinds] :
             \E k2 \in [1..n2 -> RenderKinds] :
               fs = [f \in {"top", "b"} |->
                       IF f = "top" THEN MakeFile("top", k1)
                                    ELSE MakeFile("b", k2)]

SeqsUpTo(S, n) == UNION {[1..m -> S] : m \in 0..n}

\* the snakefile of the log-level inputs: one rule
OneRuleFile ==
    [f \in {TopFile} |-> <<BlockEntry(RuleBlock("a", "", NoBlocks))>>]

\* entries of a log: rules and checkpoints, inputs and outputs of one or
\* two paths, log fields, fields of other keywords
LogTemplates ==
    {LogEntry(RuleKeyword, "a", <<>>, <<"x">>, <<FieldLine("log", <<"l1">>)>>),
     LogEntry(CheckpointKeyword, "b", <<"x">>, <<"y">>,
              <<FieldLine("jobid", <<"x">>)>>),
     LogEntry(RuleKeyword, "b", <<"y", "x">>, <<"z">>, <<>>),
     LogEntry(RuleKeyword, "b", <<"x">>, <<"y", "x">>, <<>>),
     LogEntry(CheckpointKeyword, "a", <<"z">>, <<"y">>,
              <<FieldLine("jobid", <<"z">>), FieldLine("log", <<"l2">>),
                FieldLine("wildcards", <<"y", "x">>)>>),
     LogEntry(RuleKeyword, "c", <<"x", "y">>, <<"z">>,
              <<FieldLine("log", <<"l1">>)>>)}

\* what follows the entries: nothing, the dry-run line, or the dry-run
\* line and more text
LogTails ==
    {<<>>, <<DryRunLine>>,
     <<DryRunLine>> \o LogEntry(RuleKeyword, "c", <<"x">>, <<"w">>, <<>>)}

RECURSIVE Concat(_)
Concat(seqs) == IF seqs = <<>> THEN <<>> ELSE Head(seqs) \o Concat(Tail(seqs))

InitLog ==
    /\ Constructed
    /\ NoCommandLine
    /\ null_args = {}
    /\ exec_log = <<>>
    /\ fs = OneRuleFile
    /\ exclude_rules = <<>>
    /\ \E entries \in SeqsUpTo(LogTemplates, MaxLogEntries) :
         \E tail \in LogTails :
            log = Concat(entries) \o tail

\* jobs of a log with dependencies among them: rules that consume none,
\* one or two of the paths x, y and produce one of x, y, z, and two
\* checkpoints
DagTemplates ==
    {LogEntry(RuleKeyword, "a", inputs, <<output>>, <<>>) :
        inputs \in {<<>>, <<"x">>, <<"y">>, <<"x", "y">>},
        output \in {"x", "y", "z"}}
    \cup {LogEntry(CheckpointKeyword, "a", <<>>, <<"x">>, <<>>),
          LogEntry(CheckpointKeyword, "a", <<"x">>, <<"y">>, <<>>)}

InitDag ==
    /\ Constructed
    /\ NoCommandLine
    /\ null_args = {}
    /\ exec_log = <<>>
    /\ fs = OneRuleFile
    /\ exclude_rules = <<>>
    /\ \E entries \in SeqsUpTo(DagTemplates, MaxRecipes) :
         log = Concat(entries) \o <<DryRunLine>>

\* the sub-blocks a rule of the inputs declares: at most one
SubBlockValues == [input |-> {"v1"}, shell |-> {"v1", "v2"}]
DeclaredBlocks ==
    {NoBlocks} \cup
    UNION {{[x \in {k} |-> v] : v \in SubBlockValues[k]} : k \in Keys}

\* one snakefile of rules, some of them derived
DerivedTemplates ==
    {RuleBlock(nb[1], nb[2], m) :
        nb \in {<<"a", "">>, <<"b", "">>, <<"b", "a">>, <<"c", "b">>},
        m \in DeclaredBlocks}
InitDerived ==
    /\ Constructed
    /\ NoCommandLine
    /\ null_args = {}
    /\ exec_log = <<>>
    /\ log = OneRuleLog
    /\ exclude_rules = <<>>
    /\ \E rules \in SeqsUpTo(DerivedTemplates, MaxRules) :
         fs = [f \in {TopFile} |->
                 [i \in 1..Len(rules) |-> BlockEntry(rules[i])]]

\* one snakefile of rules with repeated names, and a caller-supplied
\* exclusion list
DuplicateTemplates ==
    {RuleBlock(n, "", m) : n \in {"a", "b"}, m \in DeclaredBlocks}
InitDuplicates ==
    /\ Constructed
    /\ NoCommandLine
    /\ null_args = {}
    /\ exec_log = <<>>
    /\ log = OneRuleLog
    /\ exclude_rules \in SeqsUpTo({"a", "b"}, MaxExclude)
    /\ \E rules \in SeqsUpTo(DuplicateTemplates, MaxRules) :
         fs = [f \in {TopFile} |->
                 [i \in 1..Len(rules) |-> BlockEntry(rules[i])]]

\* two snakefiles with at most MaxEntries entries together: python code, a
\* rule, a rule derived from it, includes at an indentation
MixedKinds == {"code", "rule a input", "rule b from a", "include b"}
InitMixed ==
    /\ Constructed
    /\ NoCommandLine
    /\ null_args = {}
    /\ exec_log = <<>>
    /\ log = OneRuleLog
    /\ exclude_rules = <<>>
    /\ \E n1 \in 0..MaxEntries :
         \E n2 \in 0..(MaxEntries - n1) :
           \E k1 \in [1..n1 -> MixedKinds] :
             \E k2 \in [1..n2 -> MixedKinds] :
               fs = [f \in {"top", "b"} |->
                       IF f = "top" THEN MakeFile("top", k1)
                                    ELSE MakeFile("b", k2)]

\* one snakefile of up to MaxOccurrences rules, most of them of one name,
\* and a caller-supplied exclusion list
DetectTemplates ==
    {RuleBlock("a", "", m) : m \in DeclaredBlocks \ {[k \in {"input"} |-> "v1"]}}
        \cup {RuleBlock("b", "", NoBlocks)}
InitDetect ==
    /\ Constructed
    /\ NoCommandLine
    /\ null_args = {}
    /\ exec_log = <<>>
    /\ log = OneRuleLog
    /\ exclude_rules \in SeqsUpTo({"a", "b"}, MaxExclude)
    /\ \E rules \in SeqsUpTo(DetectTemplates, MaxOccurrences) :
         fs = [f \in {TopFile} |->
                 [i \in 1..Len(rules) |-> BlockEntry(rules[i])]]

\* lines of the captured output of a snakemake run: missing rules and
\* missing checkpoints, behind the error marker and behind other text, a
\* message of another kind, an error of another kind
ExecLines ==
    {<<"Exception:", "'Rules' object has no attribute '", "rulename1", "'",
       " so that's a bummer">>,
     <<"Other exception:", "'Rules' object has no attribute '", "rulename2",
       "'", " which makes me sad">>,
     <<"'Rules' object has attribute 'rulename3', so let's not just focus on the negative">>,
     <<"Exception:", "'Checkpoints' object has no attribute '", "check1", "'",
       ", which again stinks">>,
     <<"Other exception:", "'Checkpoints' object has no attribute '", "check2",
       "'", ", I give up">>,
     <<"Exception:", "damnable portal of antediluvian evil">>,
     <<"Other exception:", "'Rules' object has no attribute '", "rulename1",
       "'", " once more">>}
InitMissing ==
    /\ Constructed
    /\ NoCommandLine
    /\ null_args = {}
    /\ fs = OneRuleFile
    /\ log = OneRuleLog
    /\ exclude_rules = <<>>
    /\ exec_log \in SeqsUpTo(ExecLines, MaxExecLines)

\* callers that hand a null destination to some of the operations
NullableOperations ==
    {"load_everything", "detect_known_issues", "add_dag_from_leaf",
     "find_missing_rules"}
InitNull ==
    /\ Constructed
    /\ NoCommandLine
    /\ null_args \in SUBSET NullableOperations
    /\ fs = OneRuleFile
    /\ log = OneRuleLog
    /\ exclude_rules \in SeqsUpTo({"a", "b"}, MaxExclude)
    /\ exec_log \in SeqsUpTo(ExecLines, 1)

\* the values of the options on the command line and in the config yaml:
\* absent, or a path that names its origin
CliValues ==
    [o \in Options |->
        CASE o = "output-test-dir" ->
                {<<>>, <<"cli", "out">>, <<"cli", "out", Separator>>}
          [] o = "snakefile" -> {<<>>, <<"cli", "workflow", "Snakefile">>}
          [] o = "pipeline-top-dir" -> {<<>>, <<"cli", "top">>}
          [] o = "pipeline-run-dir" -> {<<>>, <<"run">>}
          [] o = "inst-dir" -> {<<>>, <<"cli", "inst">>}
          [] o = "snakemake-log" ->
                {<<>>, <<"cli", "snakemake.log">>, <<"cli", "gone.log">>}]
YamlValues ==
    [o \in Options |->
        CASE o = "output-test-dir" -> {<<>>, <<"yaml", "out">>}
          [] o = "snakefile" -> {<<>>, <<"yaml", "workflow", "Snakefile">>}
          [] o = "pipeline-top-dir" -> {<<>>, <<"yaml", "top">>}
          [] o = "pipeline-run-dir" -> {<<>>, <<".">>}
          [] o = "inst-dir" -> {<<>>, <<"yaml", "inst">>}
          [] o = "snakemake-log" -> {<<>>, <<"yaml", "snakemake.log">>}]

\* the functions that pick one value for every option
Picks(values) ==
    {[o \in Options |->
        CASE o = "output-test-dir" -> v[1] [] o = "snakefile" -> v[2]
          [] o = "pipeline-top-dir" -> v[3] [] o = "pipeline-run-dir" -> v[4]
          [] o = "inst-dir" -> v[5] [] o = "snakemake-log" -> v[6]] :
        v \in values["output-test-dir"] \X values["snakefile"]
                \X values["pipeline-top-dir"] \X values["pipeline-run-dir"]
                \X values["inst-dir"] \X values["snakemake-log"]}

\* a command line, and a config yaml that is not named, not on the disk, or
\* loaded
InitCargs ==
    /\ Constructed
    /\ null_args = {}
    /\ exec_log = <<>>
    /\ fs = OneRuleFile
    /\ log = OneRuleLog
    /\ exclude_rules = <<>>
    /\ argv \in Picks(CliValues)
    /\ \/ \E filename \in {<<>>, <<"gone.yaml">>} :
            config = [filename |-> filename,
                      entries |-> [o \in Options |-> <<>>]]
       \/ \E entries \in Picks(YamlValues) :
            config = [filename |-> <<"config.yaml">>, entries |-> entries]

\* a recipe object after its construction
InitRecipe ==
    /\ Constructed
    /\ NoCommandLine
    /\ null_args = {}
    /\ exec_log = <<>>
    /\ fs = OneRuleFile
    /\ log = OneRuleLog
    /\ exclude_rules = <<>>

Next ==
    \/ LoadEverything
    \/ ScanInclude
    \/ ScanOther
    \/ PassEnd
    \/ DetectKnownIssues
    \/ ResolveDerivedRules
    \/ LoadFile
    \/ AddDagFromLeaf
    \/ ComputeDependencyCheckpoints
    \/ EmitSnakefile

SpecInclude == InitInclude /\ [][Next]_vars
SpecDerived == InitDerived /\ [][Next]_vars
SpecDuplicates == InitDuplicates /\ [][Next]_vars
SpecBareword == InitBareword /\ [][Next]_vars
SpecRender == InitRender /\ [][Next]_vars
SpecLog == InitLog /\ [][Next]_vars
SpecDag == InitDag /\ [][Next]_vars
SpecMixed == InitMixed /\ [][Next]_vars

\* the operations as a caller of the two classes may use them: main(), a
\* second detection on the loaded snakefile, and the search for missing
\* rules in the output of a run of the emitted snakefile
NextApi ==
    \/ LoadEverything
    \/ ScanInclude
    \/ ScanOther
    \/ PassEnd
    \/ DetectKnownIssues
    \/ ResolveDerivedRules
    \/ DetectKnownIssuesAgain
    \/ LoadFile
    \/ AddDagFromLeaf
    \/ ComputeDependencyCheckpoints
    \/ EmitSnakefile
    \/ FindMissingRules

SpecDetect == InitDetect /\ [][NextApi]_vars
SpecMissing == InitMissing /\ [][NextApi]_vars
SpecNull == InitNull /\ [][NextApi]_vars

\* main() up to the parameters
NextCargs == SetParameters
SpecCargs == InitCargs /\ [][NextCargs]_vars

\* the operations of recipe
NextRecipe ==
    \/ SetRuleName
    \/ SetCheckpoint
    \/ SetCheckpointUpdate
    \/ AddInput
    \/ AddOutput
    \/ SetLog
    \/ Clear
SpecRecipe == InitRecipe /\ [][NextRecipe]_vars
\* the caller runs load_everything to its end: a step that can be taken is
\* taken
FairSpecInclude == InitInclude /\ [][Next]_vars /\ WF_vars(Next)

(***************************************************************************)
(* Include expansion: what the loop of load_everything guarantees.         *)
(***************************************************************************)
\* the while loop of load_everything was left through its loop test
LoopLeft ==
    \/ pc \in {"detect", "resolve", "done"}
    \/ pc = "error" /\ err.thrower = "resolve_derived_rules"

Resolved(list) == \A i \in 1..Len(list) : ~is_include_directive(list[i])

IsIncludeEntry(e, target) ==
    /\ ~e.blank
    /\ is_include_directive(e.block)
    /\ get_recursive_filename(e.block) = target

\* C1: once the include-expansion loop has terminated, no block of the
\* sequence is an include directive, wherever the directives stood.
C1_NoIncludeAfterLoop == LoopLeft => Resolved(blocks)

\* the loop ended on two neighbouring includes of a file that itself ends
\* in an include
C1_Witness ==
    /\ pc = "detect"
    /\ Len(fs["top"]) >= 2
    /\ IsIncludeEntry(fs["top"][1], "a")
    /\ IsIncludeEntry(fs["top"][2], "a")
    /\ Len(fs["a"]) >= 2
    /\ IsIncludeEntry(fs["a"][Len(fs["a"])], "b")
    /\ "b" \in DOMAIN fs
    /\ Len(blocks) >= 2

\* the include tree of a file, flattened in place at an indentation
RECURSIVE Flatten(_, _)
FlattenEntries(entries, depth) ==
    LET RECURSIVE From(_)
        From(i) ==
            IF i > Len(entries) THEN <<>>
            ELSE (IF entries[i].blank
                  THEN <<>>
                  ELSE IF is_include_directive(entries[i].block)
                  THEN Flatten(get_recursive_filename(entries[i].block),
                               depth + entries[i].block.local_indentation)
                  ELSE <<[entries[i].block
                            EXCEPT !.global_indentation = depth]>>)
                 \o From(i + 1)
    IN  From(1)
Flatten(file, depth) == FlattenEntries(fs[file], depth)

\* C2: after include expansion the sequence is the in-place flattening of
\* the include tree of the top-level file: every marker replaced at its
\* position by the blocks of its file, in file order, recursively.
C2_SequenceIsFlattening == pc = "detect" => blocks = Flatten(TopFile, 0)

\* a block of file b, included through file a only, stands right behind a
\* block of the top-level file
C2_Witness ==
    /\ pc = "detect"
    /\ \A i \in 1..Len(fs["top"]) : ~IsIncludeEntry(fs["top"][i], "b")
    /\ \E i \in 2..Len(blocks) :
         /\ blocks[i].code_chunk[1][2] = "b"
         /\ blocks[i].global_indentation = 4
         /\ blocks[i - 1].code_chunk[1][2] = "top"

\* C3: include expansion is bounded and stops with an error when it does
\* not converge: every load leaves the expansion loop.
C3_ExpansionStops == <>(pc \notin {"start", "scan"})

FirstNamed(list, name) ==
    IF \E j \in 1..Len(list) : list[j].rule_name = name
    THEN CHOOSE j \in 1..Len(list) :
            /\ list[j].rule_name = name
            /\ \A h \in 1..(j - 1) : list[h].rule_name # name
    ELSE 0

IsDerived(rb) == rb.base_rule_name # ""

\* C5: after resolve_derived_rules every derived block holds each sub-block
\* key of its base rule (the first block of that name) that it lacked, with
\* the base's value, and keeps its own value for every key it had.
C5_DerivedTakesMissingKeys ==
    [][(pc = "resolve" /\ pc' = "done") =>
        \A i \in 1..Len(blocks) :
            IsDerived(blocks[i]) =>
                LET own == blocks[i].named_blocks
                    base == blocks[FirstNamed(blocks,
                                blocks[i].base_rule_name)].named_blocks
                    merged == blocks'[i].named_blocks
                IN  /\ \A k \in DOMAIN own :
                          k \in DOMAIN merged /\ merged[k] = own[k]
                    /\ \A k \in DOMAIN base \ DOMAIN own :
                          k \in DOMAIN merged /\ merged[k] = base[k]]_vars

\* the blocks as they stood in the snakefile (the inputs of the rule-level
\* specifications hold neither includes nor blank text)
Declared(i) == fs[TopFile][i].block

\* one derived rule took a key from its base; another kept its own value
\* of a key its base declares otherwise
C5_Witness ==
    /\ pc = "done"
    /\ \E i \in 1..Len(blocks) :
         /\ IsDerived(blocks[i])
         /\ DOMAIN Declared(i).named_blocks # DOMAIN blocks[i].named_blocks
    /\ \E i \in 1..Len(blocks) :
         /\ IsDerived(blocks[i])
         /\ "shell" \in DOMAIN Declared(i).named_blocks
         /\ LET b == Declared(FirstNamed(blocks, blocks[i].base_rule_name))
            IN  /\ "shell" \in DOMAIN b.named_blocks
                /\ b.named_blocks["shell"] # Declared(i).named_blocks["shell"]
                /\ blocks[i].named_blocks["shell"]
                        = Declared(i).named_blocks["shell"]

BaseMissing(list, i) ==
    /\ IsDerived(list[i])
    /\ \A j \in 1..Len(list) : list[j].rule_name # list[i].base_rule_name

ResolutionEnded ==
    \/ pc = "done"
    \/ pc = "error" /\ err.thrower = "resolve_derived_rules"

Mentions(what, name) == \E p \in 1..Len(what) : what[p] = name

\* C6: when some block names a base rule that no block carries, derived-
\* rule resolution ends in an error whose message names the derived rule
\* and the base rule it asked for.
C6_MissingBaseIsFatal ==
    (ResolutionEnded /\ \E i \in 1..Len(blocks) : BaseMissing(blocks, i))
        => /\ pc = "error"
           /\ \E i \in 1..Len(blocks) :
                /\ BaseMissing(blocks, i)
                /\ Mentions(err.what, blocks[i].rule_name)
                /\ Mentions(err.what, blocks[i].base_rule_name)

\* resolution threw on a derived rule that stands behind a resolvable one
C6_Witness ==
    /\ pc = "error"
    /\ err.thrower = "resolve_derived_rules"
    /\ Len(blocks) >= 3
    /\ BaseMissing(blocks, 3)
    /\ IsDerived(blocks[2])
    /\ ~BaseMissing(blocks, 2)

\* some derived rule has a base rule that is itself derived
HasChain(list) ==
    \E i, j \in 1..Len(list) :
        /\ IsDerived(list[i])
        /\ list[j].rule_name = list[i].base_rule_name
        /\ IsDerived(list[j])

\* C7: an inheritance chain of two or more levels makes derived-rule
\* resolution raise an error: it never completes with a merge.
C7_ChainIsRejected == pc = "done" => ~HasChain(blocks)

(***************************************************************************)
(* Duplicate rules: what detect_known_issues guarantees.                   *)
(***************************************************************************)
IsRule(rb) == rb.code_chunk = <<>>

\* two blocks of the name are structurally unequal
Divergent(list, name) ==
    \E i, j \in 1..Len(list) :
        /\ IsRule(list[i]) /\ list[i].rule_name = name
        /\ IsRule(list[j]) /\ list[j].rule_name = name
        /\ BlockDiffers(list[i], list[j])

InList(list, x) == \E i \in 1..Len(list) : list[i] = x
Count(list, x) == Cardinality({i \in 1..Len(list) : list[i] = x})
NameSet == {RuleNameOrder[n] : n \in 1..Len(RuleNameOrder)}

C9_EqualDuplicatesAccepted ==
    [][pc = "detect" =>
        \A name \in NameSet :
            ~Divergent(blocks, name) =>
                /\ Count(exclude_rules', name) = Count(exclude_rules, name)
                /\ ~InList(report'.unresolvable, name)]_vars

\* a name with several equal blocks came through detection unexcluded and
\* was counted among the rules with multiple entries
C9_Witness ==
    /\ pc = "resolve"
    /\ Count([i \in 1..Len(blocks) |-> blocks[i].rule_name], "b") >= 2
    /\ ~Divergent(blocks, "b")
    /\ ~InList(exclude_rules, "b")
    /\ report.duplicated >= 1

\* C10: every rule name with structurally divergent duplicates is listed in
\* the warning about incompatible duplicates, whatever the caller had
\* excluded.
C10_DivergentNamesReported ==
    pc \in {"resolve", "done"} =>
        \A name \in NameSet :
            Divergent(blocks, name) => InList(report.unresolvable, name)

(***************************************************************************)
(* Includes on a bareword variable.                                        *)
(***************************************************************************)
\* main() has left sf.load_file behind
SnakefileLoaded ==
    \/ pc \in {"done", "loaded", "dag", "checkpoints", "emitted"}
    \/ pc = "error" /\ err.thrower = "report_single_rule"

IsBareword(rb) == rb.code_chunk = <<BarewordIncludeLine(IncludeVariable)>>
CountBareword(list) ==
    Cardinality({i \in 1..Len(list) : IsBareword(list[i])})

\* C11: an include on a bareword variable is never spliced: every such
\* block of the include tree is still in the sequence when the expansion
\* loop has ended, no error of the load stems from it (the only error of a
\* load without derived rules is a string-literal include of a file that
\* is not on the disk), and after detect_known_issues its line is in the
\* list of leftover includes.
C11_BarewordIncludeIsLeftOver ==
    /\ pc = "detect" =>
            CountBareword(blocks) = CountBareword(Flatten(TopFile, 0))
    /\ (pc = "error" /\ err.thrower = "load_lines") =>
            "a" \notin DOMAIN fs /\ err = CannotOpen("a")
    /\ (pc = "error" /\ err.thrower # "load_lines") =>
            err.thrower = "report_single_rule"
    /\ (pc = "resolve" \/ SnakefileLoaded) =>
            \A i \in 1..Len(blocks) :
                IsBareword(blocks[i]) =>
                    InList(report.leftover, blocks[i].code_chunk[1])

\* a load ran to its end with a bareword include that came in through an
\* included file and stands in the sequence between two blocks
C11_Witness ==
    /\ pc = "loaded"
    /\ \A i \in 1..Len(fs["top"]) : ~IsBareword(fs["top"][i].block)
    /\ \E i \in 2..(Len(blocks) - 1) : IsBareword(blocks[i])
    /\ Len(report.leftover) >= 1

(***************************************************************************)
(* Rendering: what report_single_rule guarantees.                          *)
(***************************************************************************)
\* report_single_rule has written the snakefile of the recipe under emission
Rendered ==
    \/ pc = "emitted"
    \/ pc = "error" /\ err.thrower = "report_single_rule"

Verbatim(unit, rb) == unit.kind = "contents" /\ unit.block = rb
StandIn(unit, rb) ==
    /\ unit.kind = "pass"
    /\ unit.indent = rb.global_indentation + rb.local_indentation

\* C12: rendering writes one unit per block, in the order of the sequence:
\* the block itself for a block without rule name and for a block of the
\* requested rule, and for every other rule one `pass` line indented by
\* the global plus the local indentation of the block.
C12_OneUnitPerBlock ==
    Rendered =>
        /\ Len(out) = Len(blocks)
        /\ \A i \in 1..Len(blocks) :
              IF blocks[i].rule_name \in {"", emit.rule_name}
              THEN Verbatim(out[i], blocks[i])
              ELSE StandIn(out[i], blocks[i])

\* the snakefile of rule a was rendered from python code, rule a and a
\* nested rule b that came in through an include at an indentation
C12_Witness ==
    /\ pc = "emitted"
    /\ emit.rule_name = "a"
    /\ \E i, j, k \in 1..Len(blocks) :
         /\ blocks[i].rule_name = "" /\ Verbatim(out[i], blocks[i])
         /\ blocks[j].rule_name = "a" /\ Verbatim(out[j], blocks[j])
         /\ blocks[k].rule_name = "b"
         /\ blocks[k].global_indentation = 4
         /\ out[k] = PassLine(6)

\* C13: every rule block whose name is in the set of dependency rule names
\* of the recipe under emission is rendered verbatim, not as `pass`.
C13_DependenciesVerbatim ==
    Rendered =>
        \A i \in 1..Len(blocks) :
            blocks[i].rule_name \in emit.dependent_rulenames =>
                Verbatim(out[i], blocks[i])

NamedBlock(list, rule_name) ==
    \E i \in 1..Len(list) : list[i].rule_name = rule_name

\* C14: rendering for a rule name ends in an error naming that rule if and
\* only if no block of the sequence carries the name.
C14_UnknownTargetIsFatal ==
    [][pc = "checkpoints" =>
        LET rule_name == recipes[emit.rec].rule_name
        IN  /\ (pc' = "error") = ~NamedBlock(blocks, rule_name)
            /\ pc' = "error" =>
                    /\ err'.thrower = "report_single_rule"
                    /\ Mentions(err'.what, rule_name)
            /\ pc' # "error" => pc' = "emitted" /\ err' = err]_vars

\* rendering failed on a sequence of several blocks, rules among them,
\* none of which is the requested one
C14_Witness ==
    /\ pc = "error"
    /\ err = UnableToLocate("b")
    /\ Len(blocks) >= 3
    /\ NamedBlock(blocks, "a")
    /\ blocks[Len(blocks)].rule_name = ""
    /\ Len(out) = Len(blocks)

(***************************************************************************)
(* The log: what load_file guarantees.                                     *)
(***************************************************************************)
\* main() has left sr.load_file behind
LogLoaded ==
    \/ pc \in {"loaded", "dag", "checkpoints", "emitted"}
    \/ pc = "error" /\ err.thrower = "report_single_rule"

Lists(list, x) == \E i \in 1..Len(list) : list[i] = x
Producers(path) == {r \in 1..Len(recipes) : Lists(recipes[r].outputs, path)}
Latest(S) == CHOOSE r \in S : \A q \in S : q <= r
OutputPaths == UNION {{recipes[r].outputs[k] : k \in 1..Len(recipes[r].outputs)} :
                        r \in 1..Len(recipes)}

\* C15: when two distinct recipes of the log share an output path, the
\* load completes, the lookup maps the path to the recipe that was loaded
\* last of those that list it, and the warning about output files that
\* appear multiple times was printed.
C15_LaterRecipeWins ==
    LogLoaded =>
        \A path \in OutputPaths :
            Cardinality(Producers(path)) >= 2 =>
                /\ path \in DOMAIN output_lookup
                /\ output_lookup[path] = Latest(Producers(path))
                /\ toxic
                /\ pc = "loaded" => err = NoError

\* three recipes were loaded, the first and the third share a path that
\* the second does not list
C15_Witness ==
    /\ pc = "loaded"
    /\ Len(recipes) = 3
    /\ \E path \in OutputPaths :
         /\ Producers(path) = {1, 3}
         /\ output_lookup[path] = 3
    /\ toxic

\* C16: after load_file the keys of the output lookup are exactly the
\* output paths of the loaded recipes, and every key maps to a loaded
\* recipe that lists the key among its outputs.
C16_LookupCoversOutputs ==
    LogLoaded =>
        /\ DOMAIN output_lookup = OutputPaths
        /\ \A path \in DOMAIN output_lookup :
              output_lookup[path] \in Producers(path)

\* recipes with two outputs each were loaded and the lookup holds three
\* paths, not all of one recipe
C16_Witness ==
    /\ pc = "loaded"
    /\ Cardinality(DOMAIN output_lookup) = 3
    /\ \E r \in 1..Len(recipes) : Len(recipes[r].outputs) = 2
    /\ \E p, q \in DOMAIN output_lookup : output_lookup[p] # output_lookup[q]

\* the log as its entries: the dry-run line, the declaration lines in front
\* of it, and the field lines between a declaration and the next one
FooterPos ==
    IF \E i \in 1..Len(log) : log[i] = DryRunLine
    THEN CHOOSE i \in 1..Len(log) :
            /\ log[i] = DryRunLine
            /\ \A j \in 1..(i - 1) : log[j] # DryRunLine
    ELSE Len(log) + 1
Declares(line) == Head(line) \in {RuleKeyword, CheckpointKeyword}
\* the positions of the declaration lines in front of the dry-run line, in
\* log order
Declarations ==
    SelectSeq([i \in 1..(FooterPos - 1) |-> i], LAMBDA i : Declares(log[i]))
FieldsOf(from, to, key) ==
    SelectSeq(SubList(log, from + 1, to - 1),
              LAMBDA line : /\ Len(line) >= 3
                            /\ line[1] = FieldIndent
                            /\ line[2] = key)
ValuesOf(from, to, key) ==
    LET lines == FieldsOf(from, to, key)
    IN  Concat([i \in 1..Len(lines) |-> SubList(lines[i], 4, Len(lines[i]))])

DagCollected ==
    \/ pc \in {"dag", "checkpoints", "emitted"}
    \/ pc = "error" /\ err.thrower = "report_single_rule"

\* the recipes that produce an input of recipe r, by the output lookup
DirectProducers(r) ==
    {output_lookup[recipes[r].inputs[k]] :
        k \in {j \in 1..Len(recipes[r].inputs) :
                    recipes[r].inputs[j] \in DOMAIN output_lookup}}

\* the transitive dependency closure of recipe r
RECURSIVE Grow(_, _)
Grow(S, n) ==
    IF n = 0 THEN S
    ELSE Grow(S \cup UNION {DirectProducers(q) : q \in S}, n - 1)
DependencyClosure(r) == Grow(DirectProducers(r), Len(recipes))

\* C18 as stated: the result is the transitive dependency closure of the
\* target, with the target in it exactly when the flag is true.
C18_ClosureWithSelfOnFlag ==
    DagCollected =>
        included_rules =
            IF emit.include_entire_dag
            THEN DependencyClosure(emit.rec) \cup {emit.rec}
            ELSE DependencyClosure(emit.rec) \ {emit.rec}

\* C18, amended: called with an empty result, add_dag_from_leaf leaves in
\* it the recipes that produce the inputs of the target when the flag is
\* false, and the whole transitive dependency closure of the target when
\* the flag is true; the flag never adds the target itself.
C18_DirectOrEntireDag ==
    DagCollected =>
        included_rules =
            IF emit.include_entire_dag
            THEN DependencyClosure(emit.rec)
            ELSE DirectProducers(emit.rec)

\* rule a (output x), then checkpoint b (input x, output y): the
\* dependencies of b were collected with the flag set, and b is not among
\* them
C18_Witness ==
    /\ pc = "dag"
    /\ Len(recipes) = 2
    /\ ~recipes[1].rule_is_checkpoint /\ recipes[1].outputs = <<"x">>
    /\ recipes[2].rule_is_checkpoint /\ recipes[2].inputs = <<"x">>
    /\ emit.rec = 2
    /\ emit.include_entire_dag
    /\ included_rules = {1}

\* three recipes, each consuming an output of the one before it and
\* nothing else that a recipe produces
IsChain ==
    /\ Len(recipes) = 3
    /\ DirectProducers(1) = {}
    /\ DirectProducers(2) = {1}
    /\ DirectProducers(3) = {2}

\* C19: on a chain rec1 -> rec2 -> rec3, add_dag_from_leaf(rec3, false)
\* leaves exactly rec2 in the result and add_dag_from_leaf(rec3, true)
\* leaves exactly rec1 and rec2; rec3 is in neither result.
C19_ChainFromLeaf ==
    (DagCollected /\ IsChain /\ emit.rec = 3) =>
        /\ ~emit.include_entire_dag => included_rules = {2}
        /\ emit.include_entire_dag => included_rules = {1, 2}
        /\ 3 \notin included_rules

\* the whole chain behind rec3 was collected
C19_Witness ==
    /\ pc = "dag"
    /\ IsChain
    /\ emit.rec = 3
    /\ emit.include_entire_dag
    /\ included_rules = {1, 2}

MissingDone ==
    \/ pc = "missing"
    \/ pc = "error" /\ err.thrower = "find_missing_rules"

\* the names a line reports as missing, by the two shapes of the message
NamesMissing(line) ==
    {line[i + 1] : i \in {j \in 1..(Len(line) - 2) :
        /\ line[j] \in {"'Rules' object has no attribute '",
                        "'Checkpoints' object has no attribute '"}
        /\ line[j + 2] = "'"}}

\* a line that begins with the error marker and reports no missing name
Unexpected(line) ==
    line # <<>> /\ line[1] = "Exception:" /\ NamesMissing(line) = {}

\* the place of the first such line, behind the last line if there is none
FirstUnexpected ==
    LET at == {i \in 1..Len(exec_log) : Unexpected(exec_log[i])}
    IN  IF at = {} THEN Len(exec_log) + 1
        ELSE CHOOSE i \in at : \A j \in at : i <= j

\* C21: when find_missing_rules returns, the names it has recorded are
\* exactly the names that a line of the captured output reports in one of
\* the two shapes, wherever in the line the shape stands, each name once
\* and with the value true; a line without either shape that does not
\* begin with the error marker adds nothing, and no name is ever recorded
\* that no line reports.
C21_MissingNamesRecorded ==
    /\ pc = "missing" =>
            DOMAIN missing_rules =
                UNION {NamesMissing(exec_log[i]) : i \in 1..Len(exec_log)}
    /\ MissingDone =>
            /\ DOMAIN missing_rules \subseteq
                UNION {NamesMissing(exec_log[i]) : i \in 1..Len(exec_log)}
            /\ \A name \in DOMAIN missing_rules : missing_rules[name]

\* three lines were searched: a missing rule behind the error marker, a
\* message of another kind, the same rule once more behind other text; one
\* name was recorded
C21_Witness ==
    /\ pc = "missing"
    /\ Len(exec_log) = 3
    /\ exec_log[1][1] = "Exception:"
    /\ NamesMissing(exec_log[2]) = {}
    /\ exec_log[3][1] = "Other exception:"
    /\ DOMAIN missing_rules = {"rulename1"}

\* C22: when a line of the captured output begins with the error marker
\* and has neither missing-rule shape, find_missing_rules throws, and the
\* first such line stands verbatim in the error stream.
C22_UnexpectedErrorSurfaced ==
    (MissingDone /\ FirstUnexpected <= Len(exec_log)) =>
        /\ pc = "error"
        /\ InList(cerr, exec_log[FirstUnexpected])

\* the search went over a missing rule and stopped at an unexpected error
\* in the second of three lines
C22_Witness ==
    /\ pc = "error"
    /\ err.thrower = "find_missing_rules"
    /\ Len(exec_log) = 3
    /\ NamesMissing(exec_log[1]) # {}
    /\ FirstUnexpected = 2
    /\ cerr = <<exec_log[2]>>
    /\ DOMAIN missing_rules = NamesMissing(exec_log[1])

(***************************************************************************)
(* The command line: what set_parameters guarantees.                       *)
(***************************************************************************)
\* the member of params behind an option
ParamOf ==
    [o \in Options |->
        CASE o = "output-test-dir" -> "output_test_dir"
          [] o = "snakefile" -> "snakefile"
          [] o = "pipeline-top-dir" -> "pipeline_top_dir"
          [] o = "pipeline-run-dir" -> "pipeline_run_dir"
          [] o = "inst-dir" -> "inst_dir"
          [] o = "snakemake-log" -> "snakemake_log"]

\* the entry of an option in the config yaml, empty if the yaml was not
\* loaded or does not hold the option
YamlEntry(o) ==
    IF config.filename = <<"config.yaml">> THEN config.entries[o] ELSE <<>>

\* C23: for each of the six path options, the parameter set_parameters
\* returns is the value of the command line if the command line gives one,
\* and the entry of the config yaml only if it gives none (a trailing
\* separator aside).
C23_CommandLineOverrides ==
    pc = "parsed" =>
        \A o \in Options :
            /\ argv[o] # <<>> =>
                    params[ParamOf[o]] = remove_trailing_separator(argv[o])
            /\ (argv[o] = <<>> /\ YamlEntry(o) # <<>>) =>
                    params[ParamOf[o]] = remove_trailing_separator(YamlEntry(o))

(***************************************************************************)
(* recipe: what clear guarantees.                                          *)
(***************************************************************************)
\* C28: after clear(), whatever setters and add calls came before it,
\* every member of the recipe (rule name, checkpoint flag,
\* checkpoint-affected flag, inputs, outputs, log) is that of a
\* default-constructed recipe.
C28_ClearResetsEveryMember == pc = "cleared" => recipe = EmptyRecipe

(***************************************************************************)
(* Dependencies: the walk of add_dag_from_leaf over cycles and shared      *)
(* dependencies.                                                           *)
(***************************************************************************)
\* the recipes of a sequence, each once
NoRepeat(s) == \A i, j \in 1..Len(s) : s[i] = s[j] => i = j

\* C24: on every recipe set of the log, one with a cycle or with shared
\* dependencies among them, add_dag_from_leaf returns: no recipe is entered
\* twice, the recipes entered are the result, there are at most as many of
\* them as there are recipes, and the call raised no error.
C24_EachRecipeEnteredOnce ==
    /\ DagCollected =>
            /\ NoRepeat(emit.walk)
            /\ {emit.walk[i] : i \in 1..Len(emit.walk)} = included_rules
            /\ Len(emit.walk) <= Len(recipes)
    /\ pc = "error" => err.thrower # "add_dag_from_leaf"

\* rule 1 makes x from y, rule 2 makes y from x, rule 3 consumes both: the
\* walk from rule 3 met rule 1 again behind rule 2, and rule 2 again as the
\* second input of rule 3
C24_Witness ==
    /\ pc = "dag"
    /\ Len(recipes) = 3
    /\ recipes[1].inputs = <<"y">> /\ recipes[1].outputs = <<"x">>
    /\ recipes[2].inputs = <<"x">> /\ recipes[2].outputs = <<"y">>
    /\ recipes[3].inputs = <<"x", "y">>
    /\ emit.rec = 3
    /\ emit.include_entire_dag
    /\ emit.walk = <<1, 2>>

(***************************************************************************)
(* Anomaly detection: what it does to the exclusion list.                  *)
(***************************************************************************)
\* a run of detect_known_issues: the one of load_everything, or a second
\* one on the loaded sequence
DetectionRun ==
    \/ pc = "detect" /\ pc' = "resolve"
    \/ pc = "done" /\ pc' = "redetected"

\* C25: a run of detect_known_issues leaves the exclusion list it was
\* given as the front of the list it returns, entry for entry; the names
\* behind it are distinct and none of them was in the list before, however
\* many occurrences of a name differ from the first; a second run on the
\* same sequence adds nothing.
C25_DetectionOnlyAppends ==
    [][DetectionRun =>
        /\ Len(exclude_rules') >= Len(exclude_rules)
        /\ SubSeq(exclude_rules', 1, Len(exclude_rules)) = exclude_rules
        /\ \A i, j \in (Len(exclude_rules) + 1)..Len(exclude_rules') :
                exclude_rules'[i] = exclude_rules'[j] => i = j
        /\ \A i \in (Len(exclude_rules) + 1)..Len(exclude_rules') :
                \A v \in 1..Len(exclude_rules) :
                    exclude_rules[v] # exclude_rules'[i]
        /\ pc = "done" => exclude_rules' = exclude_rules]_vars

\* four rules a, the three behind the first all different from it: a was
\* added once behind the b of the caller, and the second run has ended
C25_Witness ==
    /\ pc = "redetected"
    /\ Len(Aggregated(blocks, "a")) = 4
    /\ \A i \in 2..4 :
         BlockDiffers(Aggregated(blocks, "a")[i], Aggregated(blocks, "a")[1])
    /\ exclude_rules = <<"b", "a">>

(***************************************************************************)
(* Null result destinations.                                               *)
(***************************************************************************)
\* the call ends in the error of the named operation and has touched
\* nothing else
RefusedBy(operation) ==
    /\ pc' = "error"
    /\ err'.thrower = operation
    /\ UNCHANGED <<sf_vars, sr_vars, aux_vars>>

\* C26: load_everything and detect_known_issues called with a null
\* exclusion list, add_dag_from_leaf and find_missing_rules called with a
\* null result map, end in an error and leave every piece of state as it
\* was; after the error of load_everything the block sequence is still
\* without the synthetic include block.
C26_NullDestinationRefused ==
    [][/\ (pc = "start" /\ "load_everything" \in null_args) =>
                RefusedBy("load_everything") /\ blocks' = <<>>
       /\ (pc = "done" /\ pc' # "loaded"
                /\ "detect_known_issues" \in null_args) =>
                RefusedBy("detect_known_issues")
       /\ (pc = "loaded" /\ "add_dag_from_leaf" \in null_args) =>
                RefusedBy("add_dag_from_leaf")
       /\ (pc = "emitted" /\ "find_missing_rules" \in null_args) =>
                RefusedBy("find_missing_rules")]_vars

\* load_everything has refused its null exclude_rules
C26_Witness ==
    /\ pc = "error"
    /\ "load_everything" \in null_args
    /\ err = NullExcludeRules
    /\ blocks = <<>>

(***************************************************************************)
(* The kinds of block during loading.                                      *)
(***************************************************************************)
\* a rule: a rule name and no code line
IsNamedRule(rb) == rb.rule_name # "" /\ rb.code_chunk = <<>>
\* an opaque code chunk: code lines, no rule name, and not an include
\* directive
IsOpaqueCode(rb) ==
    /\ rb.rule_name = ""
    /\ rb.code_chunk # <<>>
    /\ ~is_include_directive(rb)
KindsOf(rb) ==
    {kind \in {"include", "rule", "code"} :
        \/ kind = "include" /\ is_include_directive(rb)
        \/ kind = "rule" /\ IsNamedRule(rb)
        \/ kind = "code" /\ IsOpaqueCode(rb)}

C29_WrittenBeforeTheError ==
    (pc = "error" /\ err.thrower = "report_single_rule") =>
        /\ Len(out) = Len(blocks)
        /\ \A i \in 1..Len(blocks) :
              IF blocks[i].rule_name = ""
              THEN Verbatim(out[i], blocks[i])
              ELSE StandIn(out[i], blocks[i])

\* rule b of the log is in no snakefile: the error was raised behind a
\* sequence of a rule and a code chunk, both of them written
C29_Witness ==
    /\ pc = "error"
    /\ err = UnableToLocate("b")
    /\ \E i, j \in 1..Len(blocks) :
         /\ i < j
         /\ blocks[i].rule_name = "a" /\ out[i].kind = "pass"
         /\ blocks[j].rule_name = "" /\ out[j].kind = "contents"

(***************************************************************************)
(* Derived rules: several blocks of the base rule's name.                  *)
(***************************************************************************)
\* the blocks of the sequence that carry the name
Carriers(list, name) == {j \in 1..Len(list) : list[j].rule_name = name}

\* C30: when several blocks carry the name of the base rule,
\* resolve_derived_rules gives the derived block the sub-blocks it lacks
\* from the first of them in sequence order, as that block is when the
\* derived block is reached, and raises no error; a block without a base
\* name is as it was, and the sequence has the length and the order of
\* rule names it had.
C30_FirstOfSeveralBases ==
    [][pc = "resolve" =>
        /\ (\A i \in 1..Len(blocks) :
                blocks[i].base_rule_name # "" =>
                    Carriers(blocks, blocks[i].base_rule_name) # {})
            => pc' = "done"
        /\ pc' = "done" =>
            /\ Len(blocks') = Len(blocks)
            /\ \A i \in 1..Len(blocks) :
                 /\ blocks'[i].rule_name = blocks[i].rule_name
                 /\ blocks[i].base_rule_name = "" => blocks'[i] = blocks[i]
                 /\ (/\ blocks[i].base_rule_name # ""
                     /\ Cardinality(Carriers(blocks,
                                        blocks[i].base_rule_name)) > 1) =>
                       LET j == CHOOSE c \in
                                Carriers(blocks, blocks[i].base_rule_name) :
                                  \A d \in Carriers(blocks,
                                        blocks[i].base_rule_name) : c <= d
                           first == IF j < i THEN blocks'[j].named_blocks
                                             ELSE blocks[j].named_blocks
                           own == blocks[i].named_blocks
                           merged == blocks'[i].named_blocks
                       IN  /\ DOMAIN merged = DOMAIN own \cup DOMAIN first
                           /\ \A k \in DOMAIN own : merged[k] = own[k]
                           /\ \A k \in DOMAIN first \ DOMAIN own :
                                  merged[k] = first[k]]_vars

\* two rules a with different shell blocks, then a rule b derived from a
\* that declares nothing: b has the shell block of the first a
C30_Witness ==
    /\ pc = "done"
    /\ Len(blocks) = 3
    /\ blocks[1].rule_name = "a" /\ blocks[1].named_blocks = [k \in {"shell"} |-> "v1"]
    /\ blocks[2].rule_name = "a" /\ blocks[2].named_blocks = [k \in {"shell"} |-> "v2"]
    /\ blocks[3].rule_name = "b" /\ blocks[3].base_rule_name = "a"
    /\ Declared(3).named_blocks = NoBlocks
    /\ blocks[3].named_blocks = [k \in {"shell"} |-> "v1"]

====
